---- MODULE Spec2Model ----
(***************************************************************************)
(* Wordle guess-selection engine: the feedback-pattern codec and pattern   *)
(* matrix of game/wordle_logic.py and data/generate_full_matrix.py, the    *)
(* trie of trie/trie_structure.py and the selectors of                     *)
(* algorithms/solvers.py.                                                  *)
(*                                                                         *)
(* A word is a 5-tuple of letters; a letter is its position in the         *)
(* alphabet (a = 1, ..., z = 26).  Python's None is modelled by 0 inside   *)
(* the letter lists of the codec and by the empty tuple elsewhere; a       *)
(* loaded matrix M and a built trie T are the 1-tuples <<M>> and <<T>>.    *)
(***************************************************************************)
EXTENDS Integers, Sequences, FiniteSets, TLC

VARIABLES
    \* ---- codec runs (SpecCodec) ----
    pair,            \* <<guess, secret>> under evaluation, or <<>>
    code,            \* feedback integer of the run, or -1
    decoded,         \* decode_feedback(code), or <<>>
    feedback_int,    \* the decoded tuple re-encoded in base 3, or -1
    lookup,          \* evaluate_guess(guess, secret), or -1
    \* ---- WordleGame class-level cache ----
    word_list,       \* WordleGame._word_list
    pattern_matrix,  \* WordleGame._pattern_matrix: <<>> (None) or <<matrix>>
    \* ---- WordleGame instance ----
    allowed_words,
    secret_word,
    attempts,
    game_over,
    won,
    \* ---- solver instance ----
    solver_class,
    currently_consistent_words,
    trie,            \* self.trie: <<>> (None) or <<the set of words inserted>>
    already_used,
    search_stats,    \* self.search_stats: <<>> (empty) or <<the last entry appended>>
    _turn_entropy_cache,  \* self._turn_entropy_cache: the set of its (word, entropy) items
    _candidate_indices,   \* self._candidate_indices: <<>> (None) or <<indices>>
    heuristic_matrix,     \* HillClimbingSolver.heuristic_matrix, <<>> elsewhere
    \* ---- caller position ----
    pc,              \* "idle" | "picked" (pick_guess returned, make_guess pending)
    start_node,      \* argument start_node of the last _get_random_samples
    sample_limit,    \* its argument k
    returned_samples,\* the list it returned
    avg_entropy,     \* the branch score its caller formed: [total, size] or <<>>
    result,          \* what a make_guess called on the game alone returned
    guess,           \* value returned by the last pick_guess, or <<>>
    greedy_guess,    \* greedy_guess of the last ProgressiveEntropySolver turn, or <<>>
    dynamic_matrix,  \* dynamic_matrix of the last knowledge-based turn, or <<>>
    ended,           \* attempts in the game the last call, a start_game, ended
    before,          \* candidate set at the entry of the last solver call
    called,          \* the solver call that was last given game.attempts, or ""
    turns,           \* per accepted attempt: "ai" or "player"
    rejected,        \* make_guess refused the solver's guess
    trie_word_list,  \* the word_list a WordleTrie is being built from
    inserted,        \* entries of it the loop of WordleTrie.__init__ has taken
    root,            \* the nodes under self.root, each as its path; {} before
                     \* a WordleTrie exists
    is_word,         \* the nodes whose is_word is set
    word_count,      \* self.word_count
    leaf_nodes       \* self.leaf_nodes, each node as its path

vars == <<pair, code, decoded, feedback_int, lookup, word_list, pattern_matrix,
          allowed_words, secret_word, attempts, game_over, won,
          solver_class, currently_consistent_words, trie, already_used,
          search_stats, _turn_entropy_cache, _candidate_indices,
          heuristic_matrix,
          start_node, sample_limit, returned_samples, avg_entropy, result,
          pc, guess, greedy_guess, dynamic_matrix, ended, before, called, turns,
          rejected,
          trie_word_list, inserted, root, is_word, word_count, leaf_nodes>>

codecVars == <<pair, code, decoded, feedback_int, lookup>>
cacheVars == <<word_list, pattern_matrix>>
gameVars == <<allowed_words, secret_word, attempts, game_over, won>>
solverVars == <<solver_class, currently_consistent_words, trie, already_used,
                search_stats, _turn_entropy_cache, _candidate_indices,
                heuristic_matrix>>
trieVars == <<trie_word_list, inserted, root, is_word, word_count, leaf_nodes>>
samplerVars == <<start_node, sample_limit, returned_samples, avg_entropy>>
NoResult == [ok |-> FALSE, feedback |-> -1, message |-> ""]
callerVars == <<pc, guess, greedy_guess, dynamic_matrix, ended, before, called,
                turns, rejected>>

(***************************************************************************)
(* Bounds                                                                  *)
(***************************************************************************)
NumLetters == 3        \* codec runs draw their words over the letters 1..NumLetters
VocabSize == 4         \* words taken from the first two word files
MaxPlayerGuesses == 1  \* player guesses per game
MaxSamples == 3        \* _get_random_samples is called with k up to this
MaxGameWords == 2      \* words allowed in a game played without a solver
MaxTrieWords == 3      \* entries of a list a WordleTrie is built from

(***************************************************************************)
(* Constants of the program                                                *)
(***************************************************************************)
MISS == 0
MISPLACED == 1
EXACT == 2
WordLen == 5
NumPatterns == 243
max_attempts == 6

Positions == 1..WordLen
Codes == 0..(NumPatterns - 1)

\* Words of a codec run: every 5-letter word over the letters 1..NumLetters.
CodecWords == [Positions -> 1..NumLetters]

\* The codec only compares letters for equality, so guesses are drawn up to a
\* renaming of the letters: each new letter of a guess is the next unused one.
FirstUse(w) ==
    \A i \in Positions :
        \/ w[i] = 1
        \/ \E j \in 1..(i - 1) : w[j] = w[i] \/ w[j] = w[i] - 1

(***************************************************************************)
(* PatternCodec: WordleGame._calculate_pattern                             *)
(***************************************************************************)
\* 1. Green pass: feedback, secret and guess_list after the first loop.
GreenFeedback(g, s) == [i \in Positions |-> IF g[i] = s[i] THEN EXACT ELSE MISS]
GreenSecret(g, s) == [i \in Positions |-> IF g[i] = s[i] THEN 0 ELSE s[i]]
GreenGuess(g, s) == [i \in Positions |-> IF g[i] = s[i] THEN 0 ELSE g[i]]

\* Counter([s for s in secret if s is not None]); a missing key counts 0.
SecretCounter(secret) ==
    [x \in 1..26 |-> Cardinality({i \in Positions : secret[i] = x})]

\* the yellow pass without secret_counter[...] -= 1
YellowPassNoDecrement(i, guess_list, feedback, secret_counter) ==
    [k \in Positions |->
        IF k >= i /\ feedback[k] = MISS /\ guess_list[k] # 0
                  /\ secret_counter[guess_list[k]] > 0
        THEN MISPLACED ELSE feedback[k]]

\* the yellow pass testing secret_counter[...] >= 0
YellowPassOffByOne(i, guess_list, feedback, secret_counter) ==
    [k \in Positions |->
        IF k >= i /\ feedback[k] = MISS /\ guess_list[k] # 0
                  /\ secret_counter[guess_list[k]] >= 0
        THEN MISPLACED ELSE feedback[k]]

\* 2. Yellow pass: the loop from position i on, threading feedback and counter.
RECURSIVE YellowPass(_, _, _, _)
YellowPass(i, guess_list, feedback, secret_counter) ==
    IF i > WordLen THEN feedback
    ELSE IF feedback[i] = MISS /\ guess_list[i] # 0
            /\ secret_counter[guess_list[i]] > 0
         THEN YellowPass(i + 1, guess_list,
                         [feedback EXCEPT ![i] = MISPLACED],
                         [secret_counter EXCEPT ![guess_list[i]] = @ - 1])
         ELSE YellowPass(i + 1, guess_list, feedback, secret_counter)

\* The per-position classification before the base-3 conversion.
Classify(g, s) ==
    YellowPass(1, GreenGuess(g, s), GreenFeedback(g, s),
               SecretCounter(GreenSecret(g, s)))

\* 3. Convert to base-3 integer: feedback_int = feedback_int * 3 + f.
RECURSIVE EncodeFrom(_, _, _)
EncodeFrom(i, feedback, acc) ==
    IF i > WordLen THEN acc
    ELSE EncodeFrom(i + 1, feedback, acc * 3 + feedback[i])

\* the conversion the docstring of evaluate_guess describes: position 0 the
\* least significant digit
EncodeLeastFirst(feedback) ==
    feedback[1] + 3 * feedback[2] + 9 * feedback[3]
        + 27 * feedback[4] + 81 * feedback[5]

Encode(feedback) == EncodeFrom(1, feedback, 0)

_calculate_pattern(g, s) == Encode(Classify(g, s))

(***************************************************************************)
(* WordleGame.decode_feedback                                              *)
(***************************************************************************)
\* feedback.append(feedback_int % 3); feedback_int //= 3, five times
RECURSIVE DecodeDigits(_, _, _)
DecodeDigits(n, c, acc) ==
    IF n = 0 THEN acc
    ELSE DecodeDigits(n - 1, c \div 3, Append(acc, c % 3))

Reversed(seq) == [i \in 1..Len(seq) |-> seq[Len(seq) + 1 - i]]

\* decode_feedback without reversed(): least significant digit first
decode_feedback_unreversed(c) == DecodeDigits(WordLen, c, <<>>)

decode_feedback(c) == Reversed(DecodeDigits(WordLen, c, <<>>))

(***************************************************************************)
(* PatternMatrix: data/generate_full_matrix.py                             *)
(***************************************************************************)
\* The generator's own copy of the codec ("reference implementation").
RECURSIVE GenYellow(_, _, _, _)
GenYellow(i, guess_list, feedback, secret_counter) ==
    IF i > WordLen THEN feedback
    ELSE LET x == guess_list[i]
             hit == feedback[i] = MISS /\ x # 0 /\ secret_counter[x] > 0
         IN GenYellow(i + 1, guess_list,
                      IF hit THEN [feedback EXCEPT ![i] = MISPLACED] ELSE feedback,
                      IF hit THEN [secret_counter EXCEPT ![x] = @ - 1]
                             ELSE secret_counter)

calculate_pattern(g, s) ==
    LET green == [i \in Positions |-> g[i] = s[i]]
        guess_list == [i \in Positions |-> IF green[i] THEN 0 ELSE g[i]]
        secret_list == [i \in Positions |-> IF green[i] THEN 0 ELSE s[i]]
        feedback0 == [i \in Positions |-> IF green[i] THEN EXACT ELSE MISS]
        secret_counter ==
            [x \in 1..26 |-> Cardinality({i \in Positions : secret_list[i] = x})]
        fb == GenYellow(1, guess_list, feedback0, secret_counter)
    IN ((((fb[1]) * 3 + fb[2]) * 3 + fb[3]) * 3 + fb[4]) * 3 + fb[5]

\* the matrix filled as result[si, gi]
generate_pattern_matrix_transposed(words) ==
    [gi \in 1..Len(words) |->
        [si \in 1..Len(words) |-> calculate_pattern(words[si], words[gi]) % 256]]

\* result[gi, si] = calculate_pattern(words[gi], words[si]), stored as uint8
generate_pattern_matrix(words) ==
    [gi \in 1..Len(words) |->
        [si \in 1..Len(words) |-> calculate_pattern(words[gi], words[si]) % 256]]

\* cls._word_to_idx = {w: i for i, w in enumerate(cls._word_list)}: for a word
\* listed twice the later index overwrites the earlier one.
InIndex(w) == \E i \in 1..Len(word_list) : word_list[i] = w
word_to_idx(w) ==
    CHOOSE i \in 1..Len(word_list) :
        /\ word_list[i] = w
        /\ \A j \in 1..Len(word_list) : word_list[j] = w => j <= i

(***************************************************************************)
(* WordleGame.evaluate_guess                                               *)
(***************************************************************************)
\* evaluate_guess taking the matrix row of an indexed guess whether or not the
\* secret is indexed
evaluate_guess_row_only(g, s) ==
    IF pattern_matrix # <<>> /\ InIndex(g)
    THEN pattern_matrix[1][word_to_idx(g)][IF InIndex(s) THEN word_to_idx(s) ELSE 1]
    ELSE _calculate_pattern(g, s)

evaluate_guess(g, s) ==
    IF pattern_matrix # <<>> /\ InIndex(g) /\ InIndex(s)
    THEN pattern_matrix[1][word_to_idx(g)][word_to_idx(s)]
    ELSE _calculate_pattern(g, s)

(***************************************************************************)
(* Codec runs: one guess/secret pair, or one code, per behaviour           *)
(***************************************************************************)
\* no WordleTrie is under construction
NoTrie ==
    /\ trie_word_list = <<>> /\ inserted = 0
    /\ root = {} /\ is_word = {}
    /\ word_count = 0 /\ leaf_nodes = <<>>

NoSampling ==
    /\ start_node = <<>> /\ sample_limit = 0
    /\ returned_samples = <<>> /\ avg_entropy = <<>>
    /\ result = NoResult

NoGame ==
    /\ NoSampling
    /\ NoTrie
    /\ allowed_words = {} /\ secret_word = <<>> /\ attempts = <<>>
    /\ game_over = FALSE /\ won = FALSE
    /\ solver_class = "None" /\ currently_consistent_words = {}
    /\ trie = <<>> /\ already_used = {}
    /\ search_stats = <<>> /\ _turn_entropy_cache = {}
    /\ _candidate_indices = <<>>
    /\ heuristic_matrix = <<>>
    /\ pc = "codec" /\ guess = <<>> /\ greedy_guess = <<>> /\ dynamic_matrix = <<>>
    /\ ended = 0 /\ before = {} /\ called = ""
    /\ turns = <<>> /\ rejected = FALSE

InitCodec ==
    /\ \/ /\ pair \in {p \in CodecWords \X CodecWords : FirstUse(p[1])}
          /\ code = -1
       \/ /\ pair = <<>>
          /\ code \in Codes
    /\ decoded = <<>> /\ feedback_int = -1 /\ lookup = -1
    /\ word_list = <<>> /\ pattern_matrix = <<>>
    /\ NoGame

\* game._calculate_pattern(guess, secret)
CalculatePattern ==
    /\ pc = "codec" /\ pair # <<>> /\ code = -1
    /\ code' = _calculate_pattern(pair[1], pair[2])
    /\ UNCHANGED <<pair, decoded, feedback_int, lookup>>
    /\ UNCHANGED <<trieVars, samplerVars, result, cacheVars, gameVars, solverVars, callerVars>>

\* WordleGame.decode_feedback(code)
DecodeFeedback ==
    /\ pc = "codec" /\ code # -1 /\ decoded = <<>>
    /\ decoded' = decode_feedback(code)
    /\ UNCHANGED <<pair, code, feedback_int, lookup>>
    /\ UNCHANGED <<trieVars, samplerVars, result, cacheVars, gameVars, solverVars, callerVars>>

\* the encoding loop of _calculate_pattern applied to the decoded tuple
EncodeFeedback ==
    /\ pc = "codec" /\ decoded # <<>> /\ feedback_int = -1
    /\ feedback_int' = Encode(decoded)
    /\ UNCHANGED <<pair, code, decoded, lookup>>
    /\ UNCHANGED <<trieVars, samplerVars, result, cacheVars, gameVars, solverVars, callerVars>>

\* generate_pattern_matrix(words) followed by WordleGame._load_pattern_matrix:
\* the list indexes both words of the pair, the guess alone or the secret alone.
LoadPatternMatrix ==
    /\ pc = "codec" /\ pair # <<>> /\ feedback_int # -1
    /\ pattern_matrix = <<>> /\ lookup = -1
    /\ word_list' \in {<<pair[1], pair[2]>>, <<pair[1]>>, <<pair[2]>>}
    /\ pattern_matrix' = <<generate_pattern_matrix(word_list')>>
    /\ UNCHANGED <<trieVars, samplerVars, result, codecVars, gameVars, solverVars, callerVars>>

\* game.evaluate_guess(guess, secret_word=secret)
EvaluateGuess ==
    /\ pc = "codec" /\ pair # <<>> /\ feedback_int # -1 /\ lookup = -1
    /\ lookup' = evaluate_guess(pair[1], pair[2])
    /\ UNCHANGED <<pair, code, decoded, feedback_int>>
    /\ UNCHANGED <<trieVars, samplerVars, result, cacheVars, gameVars, solverVars, callerVars>>

NextCodec ==
    \/ CalculatePattern
    \/ DecodeFeedback
    \/ EncodeFeedback
    \/ LoadPatternMatrix
    \/ EvaluateGuess

SpecCodec == InitCodec /\ [][NextCodec]_vars

(***************************************************************************)
(* Vocabulary of a game                                                    *)
(***************************************************************************)
\* A word file: cares, tares, dares, error, bares, rarer.  The allowed list
\* of a game is a prefix of one of the first two word files or the whole third
\* one.
Lexicon ==
    << <<3, 1, 18, 5, 19>>, <<20, 1, 18, 5, 19>>, <<4, 1, 18, 5, 19>>,
       <<5, 18, 18, 15, 18>>, <<2, 1, 18, 5, 19>>, <<18, 1, 18, 5, 18>> >>

\* A second word file: decal, cares, dares, bares, tares.  Against the
\* candidates cares, dares, bares the word decal gives three different codes.
Lexicon2 ==
    << <<4, 5, 3, 1, 12>>, <<3, 1, 18, 5, 19>>, <<4, 1, 18, 5, 19>>,
       <<2, 1, 18, 5, 19>>, <<20, 1, 18, 5, 19>> >>

\* A third word file: tares, block, build, funny, nymph, vivid.  The last five
\* share no letter with tares; scored against them, the b-words average less
\* than funny although build separates all five.
Lexicon3 ==
    << <<20, 1, 18, 5, 19>>, <<2, 12, 15, 3, 11>>, <<2, 21, 9, 12, 4>>,
       <<6, 21, 14, 14, 25>>, <<14, 25, 13, 16, 8>>, <<22, 9, 22, 9, 4>> >>

Range(seq) == {seq[i] : i \in 1..Len(seq)}
\* self.possible_words: the answer file that goes with the loaded word file,
\* the words of the third file for the third file and the words of the first
\* two for either of them
possible_words ==
    IF word_list # <<>> /\ word_list[1] = Lexicon3[1] THEN Range(Lexicon3)
    ELSE Range(Lexicon) \cup Range(Lexicon2)

\* self.first_guess: "crane" in BaseSolver, "tares" in the entropy solvers
crane == <<3, 18, 1, 14, 5>>
tares == <<20, 1, 18, 5, 19>>
error == <<5, 18, 18, 15, 18>>

Solvers ==
    {"DFSSolver", "HillClimbingSolver", "KnowledgeBasedHillClimbingSolver",
     "EntropySolver", "ProgressiveEntropySolver"}

first_guess(cls) ==
    IF cls \in {"EntropySolver", "ProgressiveEntropySolver"} THEN tares ELSE crane

(***************************************************************************)
(* CandidateTracker: BaseSolver narrowing                                  *)
(***************************************************************************)
\* _update_trie filtering against the full allowed list instead of the
\* current candidates
_update_trie_from_allowed(ccw, history) ==
    IF history = <<>> THEN ccw
    ELSE {word \in allowed_words :
            evaluate_guess(history[Len(history)][1], word)
                = history[Len(history)][2]}

\* _update_trie with guess and hypothetical secret exchanged
_update_trie_swapped(ccw, history) ==
    IF history = <<>> THEN ccw
    ELSE {word \in ccw :
            evaluate_guess(word, history[Len(history)][1])
                = history[Len(history)][2]}

\* BaseSolver._update_trie: the candidate set it leaves (the trie is rebuilt
\* from exactly this set)
_update_trie(ccw, history) ==
    IF history = <<>> THEN ccw
    ELSE {word \in ccw :
            evaluate_guess(history[Len(history)][1], word)
                = history[Len(history)][2]}

\* BaseSolver._update_currently_consistent_words: one filter per pair
RECURSIVE FilterFrom(_, _, _)
FilterFrom(k, ccw, history) ==
    IF k > Len(history) THEN ccw
    ELSE FilterFrom(k + 1,
                    {word \in ccw :
                        evaluate_guess(history[k][1], word) = history[k][2]},
                    history)

\* _update_currently_consistent_words applying the last pair only
_update_consistent_last_only(ccw, history) ==
    IF history = <<>> THEN allowed_words
    ELSE FilterFrom(Len(history), ccw, history)

_update_currently_consistent_words(ccw, history) ==
    IF history = <<>> THEN allowed_words
    ELSE FilterFrom(1, ccw, history)

(***************************************************************************)
(* Trie: trie/trie_structure.py.  A trie is given by the set T of words    *)
(* inserted; its nodes are the prefixes of those words.                    *)
(***************************************************************************)
IsPrefix(node, w) == \A i \in 1..Len(node) : w[i] = node[i]
Subtree(T, node) == {w \in T : IsPrefix(node, w)}
\* node.children.keys()
Children(T, node) ==
    IF Len(node) >= WordLen THEN {}
    ELSE {w[Len(node) + 1] : w \in Subtree(T, node)}
\* node.is_word
IsWord(T, node) == node \in T

\* sorted(node.children.items()) without reverse=True
RECURSIVE Ascending(_, _)
Ascending(node, chars) ==
    IF chars = {} THEN <<>>
    ELSE LET low == CHOOSE c \in chars : \A d \in chars : c <= d
         IN <<Append(node, low)>> \o Ascending(node, chars \ {low})

\* sorted(node.children.items(), reverse=True) as a sequence of child nodes
RECURSIVE Descending(_, _)
Descending(node, chars) ==
    IF chars = {} THEN <<>>
    ELSE LET top == CHOOSE c \in chars : \A d \in chars : d <= c
         IN <<Append(node, top)>> \o Descending(node, chars \ {top})

\* the while loop of dfs_search: pop, count, test is_word, push the children
RECURSIVE DfsLoop(_, _, _)
DfsLoop(T, stack, nodes_visited) ==
    IF stack = <<>> THEN [word |-> <<>>, nodes_visited |-> nodes_visited]
    ELSE LET node == stack[Len(stack)]
             rest == SubSeq(stack, 1, Len(stack) - 1)
         IN IF IsWord(T, node)
            THEN [word |-> node, nodes_visited |-> nodes_visited + 1]
            ELSE DfsLoop(T, rest \o Descending(node, Children(T, node)),
                         nodes_visited + 1)

dfs_search(T) == DfsLoop(T, <<<<>>>>, 0)

(***************************************************************************)
(* Selectors: algorithms/solvers.py.  Each pick operator gives the set of  *)
(* outcomes [guess, ccw, used, trie] the call can have from the solver     *)
(* state (ccw, used, tr) on the given history.                             *)
(***************************************************************************)
Outcome(g, ccw, used, tr) == [guess |-> g, ccw |-> ccw, used |-> used, trie |-> tr]

\* the outcome o of a call that also appended `entry` to self.search_stats
WithStats(o, entry) == o @@ [stats |-> <<entry>>]
\* the outcome o of a ProgressiveEntropySolver turn that built `greedy` and
\* left the items `cache` in self._turn_entropy_cache;
\* calculate_entropy fills self._candidate_indices on its first matrix lookup
WithTurn(o, greedy, cache) ==
    o @@ [greedy |-> greedy, cache |-> cache,
          indices |-> IF pattern_matrix # <<>> /\ o.ccw # {}
                         /\ \E x \in cache : InIndex(x[1])
                      THEN <<{word_to_idx(c) : c \in {x \in o.ccw : InIndex(x)}}>>
                      ELSE <<>>]

\* list(self.currently_consistent_words)[0] if ... else "error": a set lists
\* its members in no fixed order
FirstOrError(ccw) == IF ccw # {} THEN ccw ELSE {error}

\* DFSSolver.pick_guess
DFSPick(ccw, used, history) ==
    LET now == _update_trie(ccw, history)
        found == dfs_search(now).word
        entry == [method |-> "DFS",
                  nodes_visited |-> dfs_search(now).nodes_visited,
                  word_found |-> found]
    IN {WithStats(Outcome(g, now, used, <<now>>), entry) :
            g \in IF found # <<>> THEN {found} ELSE FirstOrError(now)}

\* HillClimbingSolver._calculate_heuristic and
\* KnowledgeBasedHillClimbingSolver._calculate_dynamic_heuristic
_calculate_heuristic(words) ==
    [i \in Positions |-> [x \in 1..26 |-> Cardinality({w \in words : w[i] = x})]]

_calculate_dynamic_heuristic(words) ==
    [i \in Positions |-> [x \in 1..26 |-> Cardinality({w \in words : w[i] = x})]]

\* the greedy loop leaving one letter short of a word
RECURSIVE GreedyShort(_, _, _, _)
GreedyShort(T, matrix, node, ccw) ==
    IF Len(node) = WordLen - 1 THEN {node}
    ELSE LET chars == Children(T, node)
             i == Len(node) + 1
             best == {c \in chars : \A d \in chars : matrix[i][d] <= matrix[i][c]}
         IN IF chars = {} THEN FirstOrError(ccw)
            ELSE UNION {GreedyShort(T, matrix, Append(node, c), ccw) : c \in best}

\* The greedy loop of both hill-climbing solvers from `node` on.  max() keeps
\* the first maximal key in the order of node.children, which is the order in
\* which the words of an unordered set were inserted: any maximal letter.
RECURSIVE Greedy(_, _, _, _)
Greedy(T, matrix, node, ccw) ==
    IF Len(node) = WordLen THEN {node}
    ELSE LET chars == Children(T, node)
             i == Len(node) + 1
             best == {c \in chars : \A d \in chars : matrix[i][d] <= matrix[i][c]}
         IN IF chars = {} THEN FirstOrError(ccw)
            ELSE UNION {Greedy(T, matrix, Append(node, c), ccw) : c \in best}

\* The end of both hill-climbing pick_guess: the entry is appended after the
\* loop, which an empty trie leaves by its early return
ClimbOutcome(method, g, now, used) ==
    IF Children(now, <<>>) = {} THEN Outcome(g, now, used, <<now>>)
    ELSE WithStats(Outcome(g, now, used, <<now>>),
                   [method |-> method, nodes_visited |-> 1 + WordLen,
                    word_found |-> g])

\* pick_guess climbing by the counts of the narrowed candidates
HillClimbingPickDynamic(ccw, used, history) ==
    LET now == _update_trie(ccw, history)
    IN {ClimbOutcome("HillClimbing", g, now, used) :
            g \in Greedy(now, _calculate_dynamic_heuristic(now), <<>>, now)}

\* HillClimbingSolver.pick_guess
HillClimbingPick(ccw, used, history) ==
    LET now == _update_trie(ccw, history)
    IN {ClimbOutcome("HillClimbing", g, now, used) :
            g \in Greedy(now, heuristic_matrix, <<>>, now)}

\* the outcome o of a knowledge-based turn that climbed by `matrix`
WithMatrix(o, matrix) == o @@ [matrix |-> matrix]

\* pick_guess building its matrix before the narrowing of the turn
KnowledgeBasedPickStale(ccw, used, history) ==
    LET now == _update_trie(ccw, history)
        dynamic == _calculate_dynamic_heuristic(ccw)
    IN {WithMatrix(ClimbOutcome("KnowledgeBasedHillClimbing", g, now, used),
                   dynamic) :
            g \in Greedy(now, dynamic, <<>>, now)}

\* KnowledgeBasedHillClimbingSolver.pick_guess
KnowledgeBasedPick(ccw, used, history) ==
    LET now == _update_trie(ccw, history)
        dynamic == _calculate_dynamic_heuristic(now)
    IN {WithMatrix(ClimbOutcome("KnowledgeBasedHillClimbing", g, now, used),
                   dynamic) :
            g \in Greedy(now, dynamic, <<>>, now)}

(***************************************************************************)
(* Entropy.  Against n candidates a guess whose feedback codes split them  *)
(* into buckets of sizes c1, c2, ... has entropy                           *)
(*     H = log2 n - (c1 log2 c1 + c2 log2 c2 + ...) / n.                   *)
(* The model carries n * H in millionths of a bit, an integer; n is the    *)
(* same for every word scored in a turn, so comparing n * H compares H.    *)
(***************************************************************************)
\* c * log2(c) in millionths, c = 1..8
CLog2C ==
    <<0, 2000000, 4754888, 8000000, 11609640, 15509775, 19651484, 24000000>>

RECURSIVE SumOver(_, _)
SumOver(S, f) ==
    IF S = {} THEN 0
    ELSE LET x == CHOOSE y \in S : TRUE
         IN f[x] + SumOver(S \ {x}, f)

\* entropy from the codes `pat` gives each candidate
EntropyOfCodes(cands, pat) ==
    LET codes == {pat[c] : c \in cands}
        cost == [p \in codes |-> CLog2C[Cardinality({c \in cands : pat[c] = p})]]
    IN CLog2C[Cardinality(cands)] - SumOver(codes, cost)

\* the entropy of row gi with its sign reversed
EntropyRowNegated(gi, cands) ==
    0 - EntropyOfCodes(cands,
                       [c \in cands |-> pattern_matrix[1][gi][word_to_idx(c)]])

\* EntropySolver._get_entropies_vectorized: the entry of row gi, read from
\* pattern_matrix[gi, candidate_indices]
EntropyRow(gi, cands) ==
    EntropyOfCodes(cands,
                   [c \in cands |-> pattern_matrix[1][gi][word_to_idx(c)]])

\* ProgressiveEntropySolver.calculate_entropy: matrix row of the guess when the
\* matrix is loaded and indexes it, evaluate_guess per candidate otherwise
calculate_entropy(guess_word, cands) ==
    IF cands = {} THEN 0
    ELSE EntropyOfCodes(cands, [c \in cands |-> evaluate_guess(guess_word, c)])

\* the words that are keys of the dict with the items `cache`
Keys(cache) == {x[1] : x \in cache}

\* calculate_entropy as its callers see it: the cached value when guess_word
\* is a key of the cache, the computed one otherwise
cached_entropy(cache, guess_word, cands) ==
    IF guess_word \in Keys(cache)
    THEN (CHOOSE x \in cache : x[1] = guess_word)[2]
    ELSE calculate_entropy(guess_word, cands)

\* the cache after calculate_entropy was called for each of `words`: a word
\* that is a key keeps its value, any other is stored with the computed one
Store(cache, words, cands) ==
    cache \cup {<<w, calculate_entropy(w, cands)>> : w \in words \ Keys(cache)}

\* EntropySolver.pick_guess without the tie-breaker loop
EntropyPickNoTieBreak(ccw, used, tr, history) ==
    IF history = <<>> THEN {Outcome(first_guess("EntropySolver"), ccw, used, tr)}
    ELSE
      LET now == _update_currently_consistent_words(ccw, history)
          rows == 1..Len(word_list)
          all_entropies ==
              [gi \in rows |->
                  IF word_list[gi] \in used THEN -1 ELSE EntropyRow(gi, now)]
          tied_indices ==
              {gi \in rows : \A gj \in rows : all_entropies[gj] <= all_entropies[gi]}
          best_word ==
              word_list[CHOOSE gi \in tied_indices : \A gj \in tied_indices : gi <= gj]
      IN IF now = {} THEN {Outcome(error, now, used, tr)}
         ELSE IF Cardinality(now) = 1
              THEN {Outcome(CHOOSE w \in now : TRUE, now, used, tr)}
              ELSE {Outcome(best_word, now, used \cup {best_word}, tr)}

\* EntropySolver.pick_guess: np.argmax keeps the first maximal row; among
\* several tied rows the first one that is a candidate is preferred
EntropyPick(ccw, used, tr, history) ==
    IF history = <<>> THEN {Outcome(first_guess("EntropySolver"), ccw, used, tr)}
    ELSE
      LET now == _update_currently_consistent_words(ccw, history)
          rows == 1..Len(word_list)
          all_entropies ==
              [gi \in rows |->
                  IF word_list[gi] \in used THEN -1 ELSE EntropyRow(gi, now)]
          tied_indices ==
              {gi \in rows : \A gj \in rows : all_entropies[gj] <= all_entropies[gi]}
          best_idx == CHOOSE gi \in tied_indices : \A gj \in tied_indices : gi <= gj
          tied_cands == {gi \in tied_indices : word_list[gi] \in now}
          best_word ==
              IF Cardinality(tied_indices) > 1 /\ tied_cands # {}
              THEN word_list[CHOOSE gi \in tied_cands :
                                \A gj \in tied_cands : gi <= gj]
              ELSE word_list[best_idx]
      IN IF now = {} THEN {Outcome(error, now, used, tr)}
         ELSE IF Cardinality(now) = 1
              THEN {Outcome(CHOOSE w \in now : TRUE, now, used, tr)}
              ELSE {Outcome(best_word, now, used \cup {best_word}, tr)}

\* ProgressiveEntropySolver(game, samples_per_node=100)
sample_size == 100

\* random.shuffle(children): every order of the children
RECURSIVE Shuffles(_)
Shuffles(S) ==
    IF S = {} THEN {<<>>}
    ELSE UNION {{<<x>> \o rest : rest \in Shuffles(S \ {x})} : x \in S}

\* the loop of _get_random_samples that never looks at k
RECURSIVE WalkNoEarlyStop(_, _, _, _)
WalkNoEarlyStop(T, stack, samples, k) ==
    IF stack = <<>> THEN {samples}
    ELSE LET node == stack[Len(stack)]
             rest == SubSeq(stack, 1, Len(stack) - 1)
             got == IF IsWord(T, node) THEN Append(samples, node) ELSE samples
         IN UNION {WalkNoEarlyStop(T,
                        rest \o [i \in 1..Len(order) |-> Append(node, order[i])],
                        got, k) :
                   order \in Shuffles(Children(T, node))}

\* The loop of _get_random_samples from a stack of nodes and the samples so
\* far: pop the last node, append its word and stop at k words, push its
\* children in shuffled order.  The lists the loop can end with.
RECURSIVE Walk(_, _, _, _)
Walk(T, stack, samples, k) ==
    IF stack = <<>> \/ Len(samples) >= k THEN {samples}
    ELSE LET node == stack[Len(stack)]
             rest == SubSeq(stack, 1, Len(stack) - 1)
             got == IF IsWord(T, node) THEN Append(samples, node) ELSE samples
         IN IF IsWord(T, node) /\ Len(got) >= k THEN {got}
            ELSE UNION {Walk(T,
                             rest \o [i \in 1..Len(order) |-> Append(node, order[i])],
                             got, k) :
                        order \in Shuffles(Children(T, node))}

\* ProgressiveEntropySolver._get_random_samples(start_node, k)
_get_random_samples(T, node, k) == Walk(T, <<node>>, <<>>, k)

\* total_entropy and len(samples) of a sampled branch: avg_entropy is their
\* quotient
BranchScore(samples, cands, cache) ==
    [total |-> SumOver(1..Len(samples),
                       [i \in 1..Len(samples) |->
                           cached_entropy(cache, samples[i], cands)]),
     size |-> Len(samples)]

\* the ways the loop over possible_chars can sample the children of `node`:
\* one sample list per child
RECURSIVE SampleChoices(_, _, _)
SampleChoices(T, node, chars) ==
    IF chars = {} THEN {<<>>}
    ELSE LET c == CHOOSE x \in chars : TRUE
         IN {f @@ (c :> S) :
                f \in SampleChoices(T, node, chars \ {c}),
                S \in _get_random_samples(T, Append(node, c), sample_size)}

\* The greedy construction loop of _compute_entropy_turn from `node` on: the
\* pairs [greedy, cache] it can end with.  Every child is sampled and the
\* sampled words are scored and cached; a child without samples is skipped;
\* the child of greatest average entropy wins, the first such in the order of
\* node.children.
RECURSIVE GreedyEntropy(_, _, _, _)
GreedyEntropy(T, cands, node, cache) ==
    LET chars == Children(T, node)
    IN IF Len(node) = WordLen \/ chars = {}
       THEN {[greedy |-> node, cache |-> Store(cache, {node}, cands)]}
       ELSE UNION {
              LET score == {<<c, BranchScore(samples[c], cands, cache)>> :
                               c \in chars}
                  scored == {x \in score : x[2].size > 0}
                  best == {x \in scored : \A y \in scored :
                              y[2].total * x[2].size <= x[2].total * y[2].size}
                  seen == Store(cache, UNION {Range(samples[c]) : c \in chars},
                                cands)
              IN IF best = {}
                 THEN {[greedy |-> node, cache |-> Store(seen, {node}, cands)]}
                 ELSE UNION {GreedyEntropy(T, cands, Append(node, x[1]), seen) :
                                x \in best}
              : samples \in SampleChoices(T, node, chars) }

\* ProgressiveEntropySolver._compute_entropy_turn, entered with the items
\* `cache` in self._turn_entropy_cache
_compute_entropy_turn(T, cands, cache) ==
    IF cands = {} THEN {[greedy |-> error, cache |-> cache]}
    ELSE IF Cardinality(cands) = 1
         THEN {[greedy |-> w, cache |-> Store(cache, {w}, cands)] : w \in cands}
         ELSE GreedyEntropy(T, cands, <<>>, cache)

\* the final selection keeping the greedy word whatever the cache holds
FinalGuessesGreedyOnly(turn, cands) == {turn.greedy}

\* the final selection of ProgressiveEntropySolver.pick_guess: the greedy word
\* unless a cached word has strictly greater entropy, then the first cached
\* word of greatest entropy
FinalGuesses(turn, cands) ==
    LET items == turn.cache
        greedy_entropy ==
            IF turn.greedy \in Keys(items)
            THEN cached_entropy(items, turn.greedy, cands) ELSE 0
        top == {x \in items : \A y \in items : y[2] <= x[2]}
    IN IF \E x \in items : x[2] > greedy_entropy
       THEN {x[1] : x \in top} ELSE {turn.greedy}

\* the end of ProgressiveEntropySolver.pick_guess: the search_stats entry
TurnOutcome(final_guess, turn, now, used, tr) ==
    WithTurn(WithStats(Outcome(final_guess, now, used, tr),
                       [method |-> "ProgressiveEntropy",
                        word_found |-> final_guess,
                        cache_size |-> Cardinality(turn.cache),
                        switched |-> final_guess # turn.greedy]),
             turn.greedy, turn.cache)

\* pick_guess traversing a trie of the full allowed vocabulary and scoring
\* against the narrowed candidates
ProgressivePickFixedTrie(ccw, used, tr, history) ==
    IF history = <<>>
    THEN {Outcome(first_guess("ProgressiveEntropySolver"), ccw, used, tr)}
    ELSE LET now == _update_trie(ccw, history)
         IN UNION {{TurnOutcome(g, turn, now, used, <<allowed_words>>) :
                        g \in FinalGuesses(turn, now)} :
                   turn \in _compute_entropy_turn(allowed_words, now, {})}

\* pick_guess entering the turn with the cache the last scoring call left
ProgressivePickKeepingCache(ccw, used, tr, history) ==
    IF history = <<>>
    THEN {Outcome(first_guess("ProgressiveEntropySolver"), ccw, used, tr)}
    ELSE LET now == _update_trie(ccw, history)
         IN UNION {{TurnOutcome(g, turn, now, used, <<now>>) :
                        g \in FinalGuesses(turn, now)} :
                   turn \in _compute_entropy_turn(now, now, _turn_entropy_cache)}

\* ProgressiveEntropySolver.pick_guess: the cache and the candidate indices
\* are emptied before the turn is computed
ProgressivePick(ccw, used, tr, history) ==
    IF history = <<>>
    THEN {Outcome(first_guess("ProgressiveEntropySolver"), ccw, used, tr)}
    ELSE LET now == _update_trie(ccw, history)
         IN UNION {{TurnOutcome(g, turn, now, used, <<now>>) :
                        g \in FinalGuesses(turn, now)} :
                   turn \in _compute_entropy_turn(now, now, {})}

\* solver.pick_guess(history) by class
pick_guess(cls, ccw, used, tr, history) ==
    CASE cls = "DFSSolver" -> DFSPick(ccw, used, history)
      [] cls = "HillClimbingSolver" -> HillClimbingPick(ccw, used, history)
      [] cls = "KnowledgeBasedHillClimbingSolver" ->
            KnowledgeBasedPick(ccw, used, history)
      [] cls = "EntropySolver" -> EntropyPick(ccw, used, tr, history)
      [] cls = "ProgressiveEntropySolver" -> ProgressivePick(ccw, used, tr, history)

(***************************************************************************)
(* WordleGame.validate_guess / make_guess                                  *)
(***************************************************************************)
validate_guess(g) == Len(g) = WordLen /\ g \in allowed_words

\* make_guess without its first test
AcceptedWhenOver(g) == validate_guess(g)

Accepted(g) == ~game_over /\ validate_guess(g)

\* make_guess ending the game on a win only
make_guess_no_limit(g) ==
    IF Accepted(g)
    THEN /\ attempts' = Append(attempts, <<g, evaluate_guess(g, secret_word)>>)
         /\ won' = (g = secret_word)
         /\ game_over' = (g = secret_word)
         /\ UNCHANGED <<allowed_words, secret_word>>
    ELSE UNCHANGED gameVars

make_guess(g) ==
    IF Accepted(g)
    THEN /\ attempts' = Append(attempts, <<g, evaluate_guess(g, secret_word)>>)
         /\ won' = (g = secret_word)
         /\ game_over' = (g = secret_word \/ Len(attempts') >= max_attempts)
         /\ UNCHANGED <<allowed_words, secret_word>>
    ELSE UNCHANGED gameVars

\* the message of make_guess / validate_guess for a guess they turn down, ""
\* for a guess they take
Rejection(g) ==
    IF game_over THEN "Game is already over."
    ELSE IF Len(g) # WordLen THEN "Word must be 5 letters long."
    ELSE IF g \notin allowed_words THEN "Word not in dictionary."
    ELSE ""

\* the pair make_guess returns
make_guess_result(g) ==
    IF Accepted(g)
    THEN [ok |-> TRUE, feedback |-> evaluate_guess(g, secret_word), message |-> ""]
    ELSE [ok |-> FALSE, feedback |-> -1, message |-> Rejection(g)]

(***************************************************************************)
(* A game session: one WordleGame, one solver of a class, the callers of   *)
(* web/app.py (make_move, player_guess, start_game)                        *)
(***************************************************************************)
Init ==
    /\ pair = <<>> /\ code = -1 /\ decoded = <<>>
    /\ feedback_int = -1 /\ lookup = -1
    /\ \/ \E L \in {Lexicon, Lexicon2}, n \in 1..VocabSize :
             n <= Len(L) /\ word_list = SubSeq(L, 1, n)
       \/ word_list = Lexicon3
    /\ allowed_words = Range(word_list)
    /\ pattern_matrix \in {<<>>, <<generate_pattern_matrix(word_list)>>}
    /\ solver_class \in Solvers
    \* EntropySolver.__init__ raises without the matrix
    /\ solver_class = "EntropySolver" => pattern_matrix # <<>>
    /\ secret_word \in possible_words
    /\ attempts = <<>> /\ game_over = FALSE /\ won = FALSE
    /\ currently_consistent_words = allowed_words
    /\ trie = <<>> /\ already_used = {}
    /\ search_stats = <<>> /\ _turn_entropy_cache = {}
    /\ _candidate_indices = <<>>
    /\ heuristic_matrix = IF solver_class = "HillClimbingSolver"
                          THEN _calculate_heuristic(allowed_words) ELSE <<>>
    /\ NoSampling
    /\ NoTrie
    /\ pc = "idle" /\ guess = <<>> /\ greedy_guess = <<>> /\ dynamic_matrix = <<>>
    /\ ended = 0 /\ before = allowed_words /\ called = ""
    /\ turns = <<>> /\ rejected = FALSE

\* guess = solver.pick_guess(game.attempts): the first statement of an AI move
\* (make_move, and the play loops of AIconsole.py and compare_solvers.py);
\* pc = "picked" is the caller between it and make_guess, where no other
\* handler runs
PickGuess ==
    /\ pc = "idle" /\ ~game_over
    /\ \E o \in pick_guess(solver_class, currently_consistent_words,
                           already_used, trie, attempts) :
          /\ guess' = o.guess
          /\ currently_consistent_words' = o.ccw
          /\ already_used' = o.used
          /\ trie' = o.trie
          /\ search_stats' = IF "stats" \in DOMAIN o THEN o.stats ELSE search_stats
          /\ _turn_entropy_cache'
                = IF "cache" \in DOMAIN o THEN o.cache ELSE _turn_entropy_cache
          /\ _candidate_indices'
                = IF "indices" \in DOMAIN o THEN o.indices ELSE _candidate_indices
          /\ greedy_guess' = IF "greedy" \in DOMAIN o THEN o.greedy ELSE greedy_guess
          /\ dynamic_matrix'
                = IF "matrix" \in DOMAIN o THEN o.matrix ELSE dynamic_matrix
    /\ before' = currently_consistent_words
    /\ called' = "pick_guess"
    /\ pc' = "picked"
    /\ ended' = 0
    /\ UNCHANGED <<trieVars, samplerVars, result, codecVars, cacheVars, gameVars>>
    /\ UNCHANGED <<solver_class, heuristic_matrix, turns, rejected>>

\* success, result = game.make_guess(guess)
SubmitGuess ==
    /\ pc = "picked"
    /\ make_guess(guess)
    /\ turns' = IF Accepted(guess) THEN Append(turns, "ai") ELSE turns
    /\ rejected' = (rejected \/ ~Accepted(guess))
    /\ called' = ""
    /\ pc' = "idle"
    /\ UNCHANGED <<trieVars, samplerVars, result, codecVars, cacheVars, solverVars>>
    /\ UNCHANGED <<guess, greedy_guess, dynamic_matrix, ended, before>>

PlayerGuesses == Cardinality({i \in 1..Len(turns) : turns[i] = "player"})

\* player_guess: game.make_guess(word), then solver._update_trie(game.attempts)
PlayerGuess(word) ==
    /\ pc = "idle" /\ ~game_over
    /\ PlayerGuesses < MaxPlayerGuesses
    /\ make_guess(word)
    /\ IF validate_guess(word)
       THEN /\ currently_consistent_words'
                = _update_trie(currently_consistent_words, attempts')
            /\ trie' = <<currently_consistent_words'>>
            /\ before' = currently_consistent_words
            /\ called' = "_update_trie"
            /\ turns' = Append(turns, "player")
            /\ ended' = 0
            /\ UNCHANGED <<solver_class, already_used, search_stats,
                           _turn_entropy_cache, _candidate_indices,
                           heuristic_matrix>>
            /\ UNCHANGED <<pc, guess, greedy_guess, dynamic_matrix, rejected>>
       ELSE UNCHANGED <<solverVars, callerVars>>
    /\ UNCHANGED <<trieVars, samplerVars, result, codecVars, cacheVars>>

\* BaseSolver.reset alone, as if no solver class overrode it: the fields of
\* the subclasses stay as they are
reset_base_only(cls) ==
    [ccw |-> allowed_words, trie |-> <<>>, stats |-> <<>>,
     used |-> already_used, cache |-> _turn_entropy_cache,
     indices |-> _candidate_indices]

\* solver.reset() for a solver of class cls: the solver fields it leaves.
\* BaseSolver.reset sets the candidates, the trie and search_stats;
\* EntropySolver.reset adds already_used, ProgressiveEntropySolver.reset the
\* turn cache and the candidate indices.  A class without a field never
\* assigns it.
reset(cls) ==
    [ccw |-> allowed_words, trie |-> <<>>, stats |-> <<>>,
     used |-> IF cls = "EntropySolver" THEN {} ELSE already_used,
     cache |-> IF cls = "ProgressiveEntropySolver" THEN {}
               ELSE _turn_entropy_cache,
     indices |-> IF cls = "ProgressiveEntropySolver" THEN <<>>
                 ELSE _candidate_indices]

\* start_game on a session of the same solver class: game.reset(),
\* solver.reset(), solver._update_trie([])
StartGame ==
    /\ pc = "idle"
    /\ secret_word' \in possible_words
    /\ attempts' = <<>> /\ game_over' = FALSE /\ won' = FALSE
    /\ LET fields == reset(solver_class)
       IN /\ currently_consistent_words' = _update_trie(fields.ccw, <<>>)
          /\ trie' = <<currently_consistent_words'>>
          /\ already_used' = fields.used
          /\ search_stats' = fields.stats
          /\ _turn_entropy_cache' = fields.cache
          /\ _candidate_indices' = fields.indices
    /\ guess' = <<>> /\ greedy_guess' = <<>> /\ dynamic_matrix' = <<>>
    /\ ended' = Len(attempts)
    /\ before' = allowed_words /\ called' = "_update_trie"
    /\ turns' = <<>> /\ rejected' = FALSE
    /\ UNCHANGED <<trieVars, samplerVars, result, codecVars, cacheVars>>
    /\ UNCHANGED <<allowed_words, solver_class, heuristic_matrix, pc>>

\* get_all_suggestions without lines 727-728: the turn is computed on the
\* cache as the last scoring call left it
SuggestionTurnsKeepingCache(T, cands) ==
    _compute_entropy_turn(T, cands, _turn_entropy_cache)

\* ProgressiveEntropySolver.get_all_suggestions on a game with attempts: the
\* cache is emptied, then _compute_entropy_turn() fills it from the trie and
\* the candidates as they are
SuggestionTurns(T, cands) == _compute_entropy_turn(T, cands, {})

\* GET /api/suggestions: solver.get_all_suggestions().  The method of
\* ProgressiveEntropySolver assigns the turn cache and the candidate indices
\* when the game has attempts; on a solver whose trie was never built it
\* raises at self.trie.root, after both were emptied.  The methods of the
\* other classes, and the branch for a game without attempts, assign nothing:
\* those calls are stuttering steps.
GetAllSuggestions ==
    /\ pc = "idle"
    /\ solver_class = "ProgressiveEntropySolver" /\ attempts # <<>>
    /\ IF trie = <<>> /\ Cardinality(currently_consistent_words) >= 2
       THEN _turn_entropy_cache' = {} /\ _candidate_indices' = <<>>
       ELSE \E turn \in SuggestionTurns(IF trie = <<>> THEN {} ELSE trie[1],
                                        currently_consistent_words) :
               LET o == WithTurn(Outcome(<<>>, currently_consistent_words,
                                         already_used, trie),
                                 turn.greedy, turn.cache)
               IN /\ _turn_entropy_cache' = o.cache
                  /\ _candidate_indices' = o.indices
    /\ called' = "get_all_suggestions"
    /\ UNCHANGED <<trieVars, samplerVars, result, codecVars, cacheVars, gameVars>>
    /\ UNCHANGED <<solver_class, currently_consistent_words, trie, already_used,
                   search_stats, heuristic_matrix>>
    /\ UNCHANGED <<pc, guess, greedy_guess, dynamic_matrix, ended, before, turns,
                   rejected>>

Next ==
    \/ PickGuess
    \/ SubmitGuess
    \/ \E word \in possible_words : PlayerGuess(word)
    \/ StartGame

Spec == Init /\ [][Next]_vars

\* The same session in hint mode, where the page also asks for suggestions,
\* for the solver class whose get_all_suggestions assigns solver fields
InitHints == Init /\ solver_class = "ProgressiveEntropySolver"

NextHints == Next \/ GetAllSuggestions

SpecHints == InitHints /\ [][NextHints]_vars

(***************************************************************************)
(* A WordleGame played without a solver (game_console.py; the suggestion   *)
(* click of frontend/visualize.py)                                         *)
(***************************************************************************)
\* what a player can type: a word of a word file, or a word that is too short
\* or too long
Typed == possible_words \cup {<<3, 1, 18>>, <<3, 1, 18, 5, 19, 19>>}

InitGame ==
    /\ pair = <<>> /\ code = -1 /\ decoded = <<>>
    /\ feedback_int = -1 /\ lookup = -1
    /\ \E L \in {Lexicon, Lexicon2, Lexicon3}, n \in 1..MaxGameWords :
          n <= Len(L) /\ word_list = SubSeq(L, 1, n)
    /\ allowed_words = Range(word_list)
    /\ pattern_matrix \in {<<>>, <<generate_pattern_matrix(word_list)>>}
    /\ secret_word \in possible_words
    /\ attempts = <<>> /\ game_over = FALSE /\ won = FALSE
    /\ solver_class = "None" /\ currently_consistent_words = {}
    /\ trie = <<>> /\ already_used = {}
    /\ search_stats = <<>> /\ _turn_entropy_cache = {}
    /\ _candidate_indices = <<>>
    /\ heuristic_matrix = <<>>
    /\ NoSampling
    /\ NoTrie
    /\ pc = "game" /\ guess = <<>> /\ greedy_guess = <<>> /\ dynamic_matrix = <<>>
    /\ ended = 0 /\ before = {} /\ called = ""
    /\ turns = <<>> /\ rejected = FALSE

\* success, result = game.make_guess(guess); the codec variables keep the
\* last pair handed to evaluate_guess and its value
MakeGuess(word) ==
    /\ pc = "game"
    /\ make_guess(word)
    /\ guess' = word
    /\ result' = make_guess_result(word)
    /\ IF Accepted(word)
       THEN /\ pair' = <<word, secret_word>>
            /\ lookup' = evaluate_guess(word, secret_word)
       ELSE UNCHANGED <<pair, lookup>>
    /\ called' = "make_guess"
    /\ UNCHANGED <<code, decoded, feedback_int, cacheVars, solverVars, samplerVars,
                   trieVars>>
    /\ UNCHANGED <<pc, greedy_guess, dynamic_matrix, ended, before, turns, rejected>>

\* game.reset(): a secret drawn from possible_words, no attempts, the
\* game running again; the word lists and the matrix stay
ResetGame ==
    /\ pc = "game"
    /\ secret_word' \in possible_words
    /\ attempts' = <<>> /\ game_over' = FALSE /\ won' = FALSE
    /\ called' = "reset"
    /\ UNCHANGED <<allowed_words, codecVars, cacheVars, solverVars, samplerVars,
                   trieVars>>
    /\ UNCHANGED <<result, pc, guess, greedy_guess, dynamic_matrix, ended, before,
                   turns, rejected>>

NextGame ==
    \/ \E word \in Typed : MakeGuess(word)
    \/ ResetGame

SpecGame == InitGame /\ [][NextGame]_vars

(***************************************************************************)
(* The sampler of ProgressiveEntropySolver on its own                      *)
(***************************************************************************)
\* the nodes of the trie built from the words T
Nodes(T) == {SubSeq(w, 1, i) : w \in T, i \in 0..WordLen}

\* A ProgressiveEntropySolver whose trie holds a set of candidates of a word
\* file, as _update_trie leaves it
InitSampling ==
    /\ \E L \in {Lexicon, Lexicon2, Lexicon3}, n \in 1..VocabSize :
          n <= Len(L) /\ word_list = SubSeq(L, 1, n)
    /\ allowed_words = Range(word_list)
    /\ pattern_matrix = <<>>
    /\ pair = <<>> /\ code = -1 /\ decoded = <<>>
    /\ feedback_int = -1 /\ lookup = -1
    /\ secret_word = <<>> /\ attempts = <<>>
    /\ game_over = FALSE /\ won = FALSE
    /\ solver_class = "ProgressiveEntropySolver"
    /\ currently_consistent_words \in SUBSET allowed_words \ {{}}
    /\ trie = <<currently_consistent_words>>
    /\ already_used = {}
    /\ search_stats = <<>> /\ _turn_entropy_cache = {}
    /\ _candidate_indices = <<>>
    /\ heuristic_matrix = <<>>
    /\ NoSampling
    /\ NoTrie
    /\ pc = "sampling" /\ guess = <<>> /\ greedy_guess = <<>> /\ dynamic_matrix = <<>>
    /\ ended = 0 /\ before = {} /\ called = ""
    /\ turns = <<>> /\ rejected = FALSE

\* One pass of the loop over possible_chars in _compute_entropy_turn, taken
\* once from each initial state:
\* samples = self._get_random_samples(child_node, k), skipped when empty,
\* else total_entropy and avg_entropy
SampleBranch(node, k) ==
    /\ pc = "sampling" /\ called = ""
    /\ \E samples \in _get_random_samples(trie[1], node, k) :
          /\ returned_samples' = samples
          /\ avg_entropy' = IF samples = <<>> THEN <<>>
                            ELSE BranchScore(samples, currently_consistent_words,
                                             _turn_entropy_cache)
    /\ start_node' = node
    /\ sample_limit' = k
    /\ called' = "_get_random_samples"
    /\ UNCHANGED <<codecVars, cacheVars, gameVars, solverVars, trieVars>>
    /\ UNCHANGED <<result, pc, guess, greedy_guess, dynamic_matrix, ended, before,
                   turns, rejected>>

NextSampling ==
    \E node \in Nodes(trie[1]), k \in 1..MaxSamples : SampleBranch(node, k)

SpecSampling == InitSampling /\ [][NextSampling]_vars

(***************************************************************************)
(* The play loop of the benchmarks: tests/compare_solvers.py,              *)
(* tests/test_kb_hillclimbing.py                                           *)
(***************************************************************************)
\* play_game(solver, secret_word) on a solver as constructed (the loop starts
\* by putting the solver back to that state), the secret being a word the
\* game allows
InitPlay == Init /\ secret_word \in allowed_words

\* guess = solver.pick_guess(history) at the head of the while loop: the loop
\* is left when make_guess did not succeed or the guess was the secret.
\* history holds the pairs of game.attempts.
PlayPick == ~rejected /\ PickGuess

\* success, feedback = game.make_guess(guess); history.append
PlaySubmit == SubmitGuess

NextPlay == PlayPick \/ PlaySubmit

\* the loop has a next statement to run: make_guess after a pick_guess, or
\* the next pick_guess while the game goes on and no guess was refused
Running == pc = "picked" \/ (pc = "idle" /\ ~game_over /\ ~rejected)

\* a step of the loop, seen from its position: every statement moves pc
LoopStep == Running /\ pc' \in {"idle", "picked"} /\ pc' # pc

\* the loop is sequential code: it takes its next step whenever it has one
SpecPlay == InitPlay /\ [][NextPlay]_vars /\ WF_pc(LoopStep)

(***************************************************************************)
(* A WordleTrie built from a list: trie/trie_structure.py                  *)
(***************************************************************************)
\* what a list handed to WordleTrie can hold: words and a shorter string
TrieEntries == {Lexicon[1], Lexicon[2], Lexicon[5], <<3, 1, 18>>}

RECURSIVE Lists(_, _)
Lists(S, n) ==
    IF n = 0 THEN {<<>>}
    ELSE Lists(S, n - 1)
            \cup {Append(l, x) : l \in {k \in Lists(S, n - 1) : Len(k) = n - 1},
                                 x \in S}

\* WordleTrie(word_list) before its loop: a root without children, no words
InitTrie ==
    /\ pair = <<>> /\ code = -1 /\ decoded = <<>>
    /\ feedback_int = -1 /\ lookup = -1
    /\ word_list = <<>> /\ pattern_matrix = <<>>
    /\ NoSampling
    /\ allowed_words = {} /\ secret_word = <<>> /\ attempts = <<>>
    /\ game_over = FALSE /\ won = FALSE
    /\ solver_class = "None" /\ currently_consistent_words = {}
    /\ trie = <<>> /\ already_used = {}
    /\ search_stats = <<>> /\ _turn_entropy_cache = {}
    /\ _candidate_indices = <<>>
    /\ heuristic_matrix = <<>>
    /\ pc = "trie" /\ guess = <<>> /\ greedy_guess = <<>> /\ dynamic_matrix = <<>>
    /\ ended = 0 /\ before = {} /\ called = ""
    /\ turns = <<>> /\ rejected = FALSE
    /\ trie_word_list \in Lists(TrieEntries, MaxTrieWords)
    /\ inserted = 0
    /\ root = {<<>>} /\ is_word = {}
    /\ word_count = 0 /\ leaf_nodes = <<>>

\* WordleTrie.insert(word): the nodes missing on the path of the word are
\* created, the last one is marked, word_count is incremented and the node is
\* appended to leaf_nodes
insert(word) ==
    [root |-> root \cup {SubSeq(word, 1, i) : i \in 0..Len(word)},
     is_word |-> is_word \cup {word},
     word_count |-> word_count + 1,
     leaf_nodes |-> Append(leaf_nodes, word)]

\* one pass of the loop of WordleTrie.__init__:
\* if len(word) == 5: self.insert(word)
InsertNext ==
    /\ pc = "trie" /\ inserted < Len(trie_word_list)
    /\ LET word == trie_word_list[inserted + 1]
       IN IF Len(word) = WordLen
          THEN LET t == insert(word)
               IN /\ root' = t.root /\ is_word' = t.is_word
                  /\ word_count' = t.word_count /\ leaf_nodes' = t.leaf_nodes
          ELSE UNCHANGED <<root, is_word, word_count, leaf_nodes>>
    /\ inserted' = inserted + 1
    /\ UNCHANGED <<trie_word_list, codecVars, cacheVars, gameVars, solverVars,
                   samplerVars, result, callerVars>>

NextTrie == InsertNext

SpecTrie == InitTrie /\ [][NextTrie]_vars

\* WordleTrie._traverse(prefix): the node at the end of the path, <<None>>
\* when a character has no child
_traverse(prefix) == IF prefix \in root THEN prefix ELSE <<0>>

\* WordleTrie.search(word)
search(word) == _traverse(word) # <<0>> /\ _traverse(word) \in is_word

\* WordleTrie.get_all_words()
get_all_words == leaf_nodes

\* the characters of node.children
children_of(node) == {c \in 1..26 : Append(node, c) \in root}

(***************************************************************************)
(* Claims about the codec and the matrix (checked under SpecCodec)         *)
(***************************************************************************)
CodecRan == pair # <<>> /\ decoded # <<>>

Min(m, n) == IF m <= n THEN m ELSE n

\* positions of the guess that hold letter x and are not exact matches
OpenGuess(g, s, x) == {i \in Positions : g[i] = x /\ g[i] # s[i]}
\* occurrences of letter x in the secret at positions that are not exact matches
OpenSecret(g, s, x) == {j \in Positions : s[j] = x /\ g[j] # s[j]}
\* the classification the consume-once rule gives position i of g against s
RuleClass(g, s, i) ==
    IF g[i] = s[i] THEN EXACT
    ELSE LET P == OpenGuess(g, s, g[i])
             m == Min(Cardinality(P), Cardinality(OpenSecret(g, s, g[i])))
         IN IF Cardinality({k \in P : k < i}) < m THEN MISPLACED ELSE MISS

\* C7: duplicate-letter consume-once rule.  In the feedback of every guess g
\* against every secret s, position i is EXACT iff g[i] = s[i], and for every
\* letter x, among the non-EXACT positions of g holding x exactly the leftmost
\* m are MISPLACED and the rest MISS, m being the smaller of the number of those
\* positions and the number of non-EXACT occurrences of x in s.
C7_ConsumeOnce ==
    CodecRan =>
        LET g == pair[1]
            s == pair[2]
        IN /\ \A i \in Positions : (decoded[i] = EXACT) <=> (g[i] = s[i])
           /\ \A x \in 1..26 :
                LET P == OpenGuess(g, s, x)
                    m == Min(Cardinality(P), Cardinality(OpenSecret(g, s, x)))
                    yellow == {i \in P : decoded[i] = MISPLACED}
                IN /\ Cardinality(yellow) = m
                   /\ \A i \in P : decoded[i] \in {MISPLACED, MISS}
                   /\ \A i \in yellow : \A k \in P : k < i => k \in yellow

\* a letter of the guess is MISPLACED at one position and, the secret's supply
\* being used up, MISS at a later one
C7_Witness ==
    /\ CodecRan
    /\ \E i, k \in Positions :
          /\ i < k /\ pair[1][i] = pair[1][k]
          /\ decoded[i] = MISPLACED /\ decoded[k] = MISS

NoSharedLetter(g, s) == \A i, j \in Positions : g[i] # s[j]

\* C8: codec end cases.  The code of (w, w) decodes to EXACT at all five
\* positions, and the code of a guess and a secret that share no letter decodes
\* to MISS at all five positions.
C8_EndCases ==
    CodecRan =>
        /\ pair[1] = pair[2] => \A i \in Positions : decoded[i] = EXACT
        /\ NoSharedLetter(pair[1], pair[2]) =>
              \A i \in Positions : decoded[i] = MISS

\* a decoded pair without a common letter whose guess has two different letters
C8_Witness ==
    /\ CodecRan
    /\ NoSharedLetter(pair[1], pair[2])
    /\ \E i, j \in Positions : pair[1][i] # pair[1][j]

\* the value of a tuple read in base 3, most significant position first
Base3(f) == 81 * f[1] + 27 * f[2] + 9 * f[3] + 3 * f[4] + f[5]

\* C9: code round trip.  For every code c in 0..242 decode_feedback(c) is a
\* 5-tuple over {0, 1, 2} whose base-3 re-encoding, most significant position
\* first, is c again; and the decoding of _calculate_pattern(g, s) is the
\* per-position classification of g against s from left to right.
C9_RoundTrip ==
    /\ decoded # <<>> =>
          /\ decoded \in [Positions -> {MISS, MISPLACED, EXACT}]
          /\ Base3(decoded) = code
    /\ feedback_int # -1 => feedback_int = code
    /\ CodecRan =>
          \A i \in Positions : decoded[i] = RuleClass(pair[1], pair[2], i)

\* a code that is not its own mirror image went through decode and re-encode
C9_Witness ==
    /\ feedback_int # -1
    /\ decoded # Reversed(decoded)

BothIndexed == pair # <<>> /\ InIndex(pair[1]) /\ InIndex(pair[2])

\* C10: matrix/codec agreement.  For every ordered pair of words of the list
\* the matrix was built from, the matrix entry [index(guess), index(secret)],
\* which is what evaluate_guess returns for the pair, equals
\* WordleGame._calculate_pattern(guess, secret).
C10_MatrixAgrees ==
    /\ pattern_matrix # <<>> =>
          \A gi, si \in 1..Len(word_list) :
              pattern_matrix[1][gi][si]
                  = _calculate_pattern(word_list[gi], word_list[si])
    /\ (lookup # -1 /\ pattern_matrix # <<>> /\ BothIndexed) => lookup = code

\* a lookup through the matrix for a pair whose code is not symmetric
C10_Witness ==
    /\ lookup # -1 /\ pattern_matrix # <<>> /\ BothIndexed
    /\ Len(word_list) = 2
    /\ pattern_matrix[1][1][2] # pattern_matrix[1][2][1]

\* the lookup of the pair cannot go through the matrix
OutsideMatrix ==
    pair # <<>> /\ (pattern_matrix = <<>> \/ ~InIndex(pair[1]) \/ ~InIndex(pair[2]))

\* C11: vocabulary-miss fallback.  When the guess or the secret is not in the
\* matrix's word index, or no matrix is loaded, evaluate_guess returns a value
\* and that value is _calculate_pattern(guess, secret).
C11_Fallback ==
    (lookup # -1 /\ OutsideMatrix) =>
        /\ lookup \in Codes
        /\ lookup = _calculate_pattern(pair[1], pair[2])
        /\ lookup = code

\* a matrix is loaded that indexes one word of the pair and not the other, and
\* the code of the pair is neither all MISS nor all EXACT
C11_Witness ==
    /\ lookup # -1 /\ pattern_matrix # <<>>
    /\ InIndex(pair[1]) # InIndex(pair[2])
    /\ lookup \notin {0, NumPatterns - 1}

(***************************************************************************)
(* Claims about narrowing and the selectors (checked under Spec)           *)
(***************************************************************************)
\* a solver call has just returned; `attempts` is the history it was given
\* and `before` the candidate set it started from
Narrowed == called \in {"pick_guess", "_update_trie"} /\ attempts # <<>>

LastGuess == attempts[Len(attempts)][1]
LastFeedback == attempts[Len(attempts)][2]

\* the words of S that give the last feedback to the last guess
ByLastPair(S) == {w \in S : evaluate_guess(LastGuess, w) = LastFeedback}
\* the words of S that give every pair's feedback to that pair's guess
ByEveryPair(S) ==
    {w \in S : \A k \in 1..Len(attempts) :
                  evaluate_guess(attempts[k][1], w) = attempts[k][2]}

\* pick_guess of EntropySolver narrows with
\* _update_currently_consistent_words, every other call with _update_trie
ReplaysHistory == called = "pick_guess" /\ solver_class = "EntropySolver"

C2_SecretKept ==
    secret_word \in allowed_words => secret_word \in currently_consistent_words

\* two narrowing steps have left the secret as the only candidate, unguessed
C2_Witness ==
    /\ secret_word \in allowed_words
    /\ Len(attempts) >= 2 /\ ~won
    /\ called # ""
    /\ before # {secret_word}
    /\ currently_consistent_words = {secret_word}

\* every move of the game was the solver's own and was accepted: pick_guess
\* was called once per turn with the history grown by one pair
Incremental == ~rejected /\ \A i \in 1..Len(turns) : turns[i] = "ai"

\* C3 as stated, for games whose secret is an allowed word: pick_guess called
\* once on a fresh solver with the full history leaves the same candidate set
\* as the incremental calls did and, for DFSSolver, returns the same guess.
C3_Original ==
    (called = "pick_guess" /\ Incremental /\ secret_word \in allowed_words) =>
        \A o \in pick_guess(solver_class, allowed_words, {}, <<>>, attempts) :
            /\ o.ccw = currently_consistent_words
            /\ solver_class = "DFSSolver" => o.guess = guess

\* C4 as stated: when narrowing leaves no candidate, pick_guess returns no
\* guess string that the game accepts as a move.
C4_Original ==
    (called = "pick_guess" /\ currently_consistent_words = {}) =>
        ~validate_guess(guess)

\* C5: single-candidate short-circuit.  For any history, the empty one
\* included, pick_guess of every selector returns the only candidate whenever
\* the candidate set it ends with has exactly one word.
C5_Original ==
    (called = "pick_guess" /\ Cardinality(currently_consistent_words) = 1) =>
        guess \in currently_consistent_words

\* C6: the DFS selector, called once per turn with the growing history,
\* returns whenever its candidate set is non-empty a word of the allowed
\* vocabulary that is consistent with every pair of the history it was given.
C6_DFSConsistent ==
    (/\ solver_class = "DFSSolver" /\ called = "pick_guess"
     /\ Incremental
     /\ currently_consistent_words # {}) =>
        /\ guess \in allowed_words
        /\ guess \in ByEveryPair({guess})

\* the third DFS guess of a game, from a set two pairs have narrowed
C6_Witness ==
    /\ solver_class = "DFSSolver" /\ called = "pick_guess"
    /\ Incremental
    /\ Len(attempts) >= 2
    /\ attempts[1][1] # attempts[2][1]
    /\ currently_consistent_words # {}
    /\ ByLastPair(allowed_words) # currently_consistent_words

\* the candidates of S that give code p to the guess w
Bucket(w, S, p) == {c \in S : _calculate_pattern(w, c) = p}

\* |S| times the Shannon entropy (base 2, in millionths of a bit) of the
\* distribution of feedback codes that w induces over S
Information(w, S) ==
    LET seen == {_calculate_pattern(w, c) : c \in S}
    IN CLog2C[Cardinality(S)]
          - SumOver(seen, [p \in seen |-> CLog2C[Cardinality(Bucket(w, S, p))]])

\* EntropySolver.pick_guess has just scored the vocabulary: the history was
\* not empty and left at least two candidates
EntropyScored ==
    /\ solver_class = "EntropySolver" /\ called = "pick_guess"
    /\ attempts # <<>>
    /\ Cardinality(currently_consistent_words) >= 2

\* the indexed words that were not in already_used when the call began
NotYetUsed == Range(word_list) \ (already_used \ {guess})

\* the words of NotYetUsed of greatest entropy over the candidates
MostInformative ==
    {w \in NotYetUsed :
        \A v \in NotYetUsed :
            Information(v, currently_consistent_words)
                <= Information(w, currently_consistent_words)}

\* C12: exact entropy optimality.  For any non-empty history that leaves at
\* least two candidates, EntropySolver.pick_guess returns a word of the indexed
\* allowed vocabulary whose entropy of the feedback-code distribution over the
\* current candidate set is at least that of every other allowed word not
\* already used.
C12_EntropyOptimal ==
    EntropyScored =>
        /\ guess \in Range(word_list) \cap allowed_words
        /\ guess \in MostInformative

\* the returned word beats a word that was open to selection
C12_Witness ==
    /\ EntropyScored
    /\ \E w \in NotYetUsed :
          Information(w, currently_consistent_words)
              < Information(guess, currently_consistent_words)

\* C13: entropy tie-break.  When several not-yet-used words tie for the
\* maximum entropy and at least one of them is a member of the current
\* candidate set, EntropySolver.pick_guess returns a member of the current
\* candidate set.
C13_TieBreak ==
    (/\ EntropyScored
     /\ Cardinality(MostInformative) > 1
     /\ MostInformative \cap currently_consistent_words # {}) =>
        guess \in currently_consistent_words

\* a word outside the candidate set, listed before every candidate, ties with
\* candidates for the maximum, and a candidate is returned
C13_Witness ==
    /\ EntropyScored
    /\ guess \in currently_consistent_words
    /\ \E w \in MostInformative \ currently_consistent_words :
          \A c \in currently_consistent_words : word_to_idx(w) < word_to_idx(c)

\* the words guessed so far in the game
Guessed == {attempts[k][1] : k \in 1..Len(attempts)}

\* C14: no repeated guess.  Within one game, while the secret has not been
\* guessed, EntropySolver.pick_guess never returns a word that was already
\* guessed earlier in that game, the opener and the guesses the solver did not
\* propose included.
C14_Original ==
    (solver_class = "EntropySolver" /\ called = "pick_guess" /\ ~won) =>
        guess \notin Guessed

\* ProgressiveEntropySolver.pick_guess has just traversed and sampled its trie
Sampled ==
    /\ solver_class = "ProgressiveEntropySolver" /\ called = "pick_guess"
    /\ attempts # <<>>

TurnEntry == search_stats[1]

Scored == Keys(_turn_entropy_cache)

BetterThanGreedy ==
    {w \in Scored : Information(w, currently_consistent_words)
                        > Information(greedy_guess, currently_consistent_words)}

\* C16: a turn of ProgressiveEntropySolver.pick_guess returns the greedy word
\* unless a word scored in the turn has strictly greater entropy, and then a
\* scored word of greatest entropy; no scored word has greater entropy than the
\* returned one, and the appended search_stats entry names the returned word
\* and has 'switched' true exactly when it is not the greedy word.
C16_FinalChoice ==
    Sampled =>
        /\ search_stats # <<>>
        /\ TurnEntry.method = "ProgressiveEntropy"
        /\ TurnEntry.word_found = guess
        /\ TurnEntry.cache_size = Cardinality(Scored)
        /\ TurnEntry.switched <=> (guess # greedy_guess)
        /\ IF BetterThanGreedy = {} THEN guess = greedy_guess
           ELSE guess \in Scored
        /\ \A w \in Scored :
              Information(w, currently_consistent_words)
                  <= Information(guess, currently_consistent_words)

\* a turn that scored several words and left the greedy word for a better one
C16_Witness ==
    /\ Sampled
    /\ Cardinality(Scored) >= 3
    /\ TurnEntry.switched
    /\ guess \in BetterThanGreedy

\* a turn that scored several words and kept the greedy word
C16_Kept ==
    /\ Sampled
    /\ Cardinality(Scored) >= 2
    /\ ~TurnEntry.switched
    /\ guess = greedy_guess

\* ---- C17 ----
SampledBranch == called = "_get_random_samples"

Distinct(seq) == \A i, j \in 1..Len(seq) : i # j => seq[i] # seq[j]

WordsBelow == Subtree(trie[1], start_node)

\* C17: _get_random_samples(node, k) returns exactly min(k, words in the
\* node's subtree) words, pairwise distinct and all of that subtree; the
\* branch score formed from them is their total entropy over their number,
\* which is never zero.
C17_BoundedSampling ==
    SampledBranch =>
        /\ Len(returned_samples) = Min(sample_limit, Cardinality(WordsBelow))
        /\ Distinct(returned_samples)
        /\ Range(returned_samples) \subseteq WordsBelow
        /\ returned_samples # <<>>
        /\ avg_entropy # <<>>
        /\ avg_entropy.size = Len(returned_samples)
        /\ avg_entropy.total
              = SumOver(Range(returned_samples),
                        [w \in Range(returned_samples) |->
                            Information(w, currently_consistent_words)])

\* a call that stopped at k words below a node holding more
C17_Witness ==
    /\ SampledBranch
    /\ sample_limit >= 2
    /\ Cardinality(WordsBelow) > sample_limit
    /\ Len(returned_samples) = sample_limit

\* a call that ran out of words before reaching k
C17_Short ==
    /\ SampledBranch
    /\ start_node # <<>>
    /\ Cardinality(WordsBelow) >= 2
    /\ Cardinality(WordsBelow) < sample_limit
    /\ Len(returned_samples) = Cardinality(WordsBelow)

\* ---- C18 ----
\* the step hands make_guess a word it must turn down: the game is over, the
\* word is not 5 letters long, or it is not an allowed word
TurnedDown ==
    /\ called' = "make_guess"
    /\ \/ game_over
       \/ Len(guess') # WordLen
       \/ guess' \notin allowed_words

\* C18: make_guess with a word that is not 5 letters long, is not in the
\* allowed vocabulary, or comes after the game is over returns (False,
\* message) and leaves attempts, won and game_over as they were; the codec is
\* not reached.
C18_RejectedUnchanged ==
    [][TurnedDown =>
          /\ ~result'.ok /\ result'.message # "" /\ result'.feedback = -1
          /\ attempts' = attempts /\ won' = won /\ game_over' = game_over
          /\ pair' = pair /\ lookup' = lookup]_vars

\* an allowed word turned down after a game with attempts in it ended
C18_Witness ==
    /\ called = "make_guess" /\ ~result.ok
    /\ result.message = "Game is already over."
    /\ game_over /\ attempts # <<>> /\ pair # <<>>
    /\ guess \in allowed_words

\* a word of the wrong length, and a word outside the vocabulary, turned down
\* in a running game
C18_Invalid ==
    /\ called = "make_guess" /\ ~result.ok /\ ~game_over /\ attempts # <<>>
    /\ result.message \in {"Word must be 5 letters long.", "Word not in dictionary."}

\* ---- C19 ----
\* the state start_game leaves on a session it reuses
AfterReset == called = "_update_trie" /\ attempts = <<>> /\ turns = <<>>

\* a solver of class cls as its constructor leaves it:
\* BaseSolver.__init__, EntropySolver.__init__,
\* ProgressiveEntropySolver.__init__
Constructed ==
    [ccw |-> allowed_words, trie |-> <<>>, used |-> {}, stats |-> <<>>,
     cache |-> {}, indices |-> <<>>]

\* C19: after reset(), whatever turns came before, the candidate set is the
\* full allowed vocabulary and already_used, the turn entropy cache, the
\* candidate indices and search_stats are empty; the first pick_guess of the
\* new game, and any pick_guess on a history, has the outcomes it has on a
\* newly constructed solver put through the same _update_trie([]).
C19_ResetIsFresh ==
    AfterReset =>
        /\ currently_consistent_words = allowed_words
        /\ already_used = Constructed.used
        /\ _turn_entropy_cache = Constructed.cache
        /\ _candidate_indices = Constructed.indices
        /\ search_stats = Constructed.stats
        /\ trie = <<_update_trie(Constructed.ccw, <<>>)>>
        /\ \A history \in {<<>>} \cup {<<<<g, _calculate_pattern(g, secret_word)>>>> :
                                         g \in allowed_words} :
              pick_guess(solver_class, currently_consistent_words,
                         already_used, trie, history)
                = pick_guess(solver_class, Constructed.ccw, Constructed.used,
                             <<_update_trie(Constructed.ccw, <<>>)>>, history)

\* a reset that ended a game with attempts in it
C19_Witness ==
    /\ AfterReset
    /\ ended >= 2
    /\ solver_class \in {"EntropySolver", "ProgressiveEntropySolver"}

\* ---- C20 ----
Evaluated == pair # <<>> /\ lookup # -1

\* the classification of position i of the evaluated guess, first letter = 1
ClassAt(i) == RuleClass(pair[1], pair[2], i)

Searched == solver_class = "DFSSolver" /\ called = "pick_guess" /\ search_stats # <<>>

\* word a comes before word b in dictionary order
Precedes(a, b) ==
    \E i \in Positions : a[i] < b[i] /\ \A j \in 1..(i - 1) : a[j] = b[j]

\* C21: on a trie of a non-empty set of words dfs_search returns the
\* lexicographically smallest word with nodes_visited = 6 (the root and one
\* node per depth); on an empty trie it returns no word with nodes_visited = 1.
C21_SmallestWord ==
    Searched =>
        LET found == search_stats[1].word_found
            visited == search_stats[1].nodes_visited
        IN IF trie[1] = {}
           THEN found = <<>> /\ visited = 1
           ELSE /\ found \in trie[1]
                /\ \A w \in trie[1] \ {found} : Precedes(found, w)
                /\ visited = WordLen + 1

\* a search of a trie of several words
C21_Witness ==
    /\ Searched
    /\ Cardinality(trie[1]) >= 3
    /\ search_stats[1].word_found \in trie[1]
    /\ search_stats[1].nodes_visited = 6

\* a search of an empty trie
C21_Empty ==
    /\ Searched /\ trie[1] = {}
    /\ search_stats[1].nodes_visited = 1

\* ---- C22 ----
\* occurrences of letter x at position i in the words S
Frequency(S, i, x) == Cardinality({w \in S : w[i] = x})

\* word g follows, at every depth, a child of greatest count over the words S
ClimbsBy(g, S) ==
    \A i \in Positions :
        \A c \in Children(trie[1], SubSeq(g, 1, i - 1)) :
            Frequency(S, i, c) <= Frequency(S, i, g[i])

Climbed ==
    /\ solver_class = "HillClimbingSolver" /\ called = "pick_guess"
    /\ currently_consistent_words # {}

\* C22: HillClimbingSolver.pick_guess moves at each depth to a child whose
\* letter has the greatest count at that position over the full allowed
\* vocabulary; the matrix is the one computed at construction in every state.
C22_StaticDescent ==
    /\ solver_class = "HillClimbingSolver" =>
          /\ DOMAIN heuristic_matrix = Positions
          /\ \A i \in Positions, x \in 1..26 :
                heuristic_matrix[i][x] = Frequency(allowed_words, i, x)
    /\ Climbed => ClimbsBy(guess, allowed_words)

\* a descent after narrowing where the counts of the remaining candidates
\* lead to a word that the counts of the full vocabulary do not
C22_Witness ==
    /\ Climbed
    /\ attempts # <<>>
    /\ currently_consistent_words # allowed_words
    /\ \E w \in currently_consistent_words :
          /\ ClimbsBy(w, currently_consistent_words)
          /\ ~ClimbsBy(w, allowed_words)

\* ---- C23 ----
KnowledgeClimbed ==
    solver_class = "KnowledgeBasedHillClimbingSolver" /\ called = "pick_guess"

\* matrix holds, for every position and letter, the count over the words S
CountsOf(matrix, S) ==
    /\ DOMAIN matrix = Positions
    /\ \A i \in Positions, x \in 1..26 : matrix[i][x] = Frequency(S, i, x)

\* C23: in every turn the matrix KnowledgeBasedHillClimbingSolver.pick_guess
\* climbs by holds the per-position letter counts of the candidate set as the
\* narrowing of that turn left it, and the returned word follows them.
C23_FreshHeuristic ==
    KnowledgeClimbed =>
        /\ CountsOf(dynamic_matrix, currently_consistent_words)
        /\ currently_consistent_words # {} =>
              ClimbsBy(guess, currently_consistent_words)

\* a turn whose narrowing changed the counts: the matrix is neither that of
\* the set before the turn nor that of the full vocabulary
C23_Witness ==
    /\ KnowledgeClimbed
    /\ currently_consistent_words # {}
    /\ ~CountsOf(dynamic_matrix, before)
    /\ ~CountsOf(dynamic_matrix, allowed_words)
    /\ before # allowed_words

\* ---- C24 ----
\* a ProgressiveEntropySolver call that scored words has just returned
ScoringCall ==
    /\ solver_class = "ProgressiveEntropySolver"
    /\ attempts # <<>>
    /\ called \in {"pick_guess", "get_all_suggestions"}

\* C24: after every ProgressiveEntropySolver.pick_guess or
\* get_all_suggestions call that scores words, every entry (w, e) of the turn
\* cache has e equal to the entropy of w against the candidate set of the
\* current turn (none when that set is empty), and a candidate-index array
\* that was filled holds the indices of exactly those candidates.
C24_FreshCache ==
    ScoringCall =>
        /\ IF currently_consistent_words = {} THEN _turn_entropy_cache = {}
           ELSE \A x \in _turn_entropy_cache :
                   x[2] = Information(x[1], currently_consistent_words)
        /\ \A w \in Scored : Cardinality({x \in _turn_entropy_cache : x[1] = w}) = 1
        /\ _candidate_indices # <<>> =>
              _candidate_indices[1]
                  = {word_to_idx(c) : c \in currently_consistent_words}

\* a second scoring call of one game: its candidates are fewer than those of
\* the call before, and a word it scored had another entropy against them
C24_Witness ==
    /\ ScoringCall
    /\ Len(attempts) >= 2
    /\ before # currently_consistent_words
    /\ \E x \in _turn_entropy_cache : x[2] # Information(x[1], before)

\* suggestions asked for after a player guess narrowed the candidates
C24_Suggestions ==
    /\ ScoringCall
    /\ called = "get_all_suggestions"
    /\ "player" \in Range(turns)
    /\ Cardinality(Scored) >= 2

\* ---- C25 ----
\* the loop of WordleTrie.__init__ has taken every entry of the list
Built == pc = "trie" /\ inserted = Len(trie_word_list)

\* the distinct 5-letter words of the list
ListWords == {w \in Range(trie_word_list) : Len(w) = WordLen}

Occurrences(seq, x) == Cardinality({i \in 1..Len(seq) : seq[i] = x})

\* C25: after building a WordleTrie from any list of words, duplicates
\* allowed, search(w) is true exactly for the 5-letter words of the list,
\* every node without children is a terminal node at depth 5, and
\* get_all_words() and word_count report each distinct word of the list
\* exactly once.
C25_Original ==
    Built =>
        /\ \A w \in TrieEntries \cup root : search(w) <=> w \in ListWords
        /\ \A node \in root :
              children_of(node) = {} => (node \in is_word /\ Len(node) = WordLen)
        /\ Range(get_all_words) = ListWords
        /\ \A w \in ListWords : Occurrences(get_all_words, w) = 1
        /\ word_count = Cardinality(ListWords)

\* what the build does guarantee: the words found are those of the list, the
\* terminal nodes are the childless ones below the root, and word_count and
\* get_all_words() count every 5-letter entry of the list, repeated or not
C25_CountsEntries ==
    Built =>
        /\ \A w \in TrieEntries \cup root : search(w) <=> w \in ListWords
        /\ \A node \in root \ {<<>>} :
              children_of(node) = {} <=> (node \in is_word /\ Len(node) = WordLen)
        /\ get_all_words = SelectSeq(trie_word_list, LAMBDA w : Len(w) = WordLen)
        /\ word_count = Len(get_all_words)

\* a list with a repeated word has been built
C25_Repeated ==
    /\ Built
    /\ \E i, j \in 1..Len(trie_word_list) :
          i < j /\ trie_word_list[i] = trie_word_list[j]
                /\ Len(trie_word_list[i]) = WordLen
    /\ word_count > Cardinality(ListWords)

\* ---- C26 ----
\* player_guess has just returned: the last accepted attempt is the player's
\* and solver._update_trie(game.attempts) was the last solver call
AfterPlayerGuess ==
    /\ called = "_update_trie"
    /\ turns # <<>> /\ turns[Len(turns)] = "player"

\* C26: for any interleaving of AI moves and player guesses in one game,
\* immediately after each player-guess step currently_consistent_words is the
\* set of the allowed words w with evaluate_guess(g, w) = f for every pair
\* (g, f) of game.attempts.
C26_Original ==
    AfterPlayerGuess => currently_consistent_words = ByEveryPair(allowed_words)

\* what holds after a player guess: the candidates agree with the last pair
\* and include every allowed word that agrees with the whole history
C26_LastPairOnly ==
    AfterPlayerGuess =>
        /\ currently_consistent_words = ByLastPair(before)
        /\ ByEveryPair(allowed_words) \subseteq currently_consistent_words

\* an AI move, then a player guess: a candidate is left that the feedback of
\* the AI's guess rules out
C26_Skipped ==
    /\ AfterPlayerGuess
    /\ turns = <<"ai", "player">>
    /\ solver_class = "DFSSolver"
    /\ \E w \in currently_consistent_words :
          evaluate_guess(attempts[1][1], w) # attempts[1][2]

\* ---- C27 ----
\* C27: in the play loop, with the secret in the allowed vocabulary, every
\* solver eventually returns the secret and wins, within as many turns as the
\* allowed vocabulary has words.
C27_Original ==
    /\ <>won
    /\ [](Len(attempts) <= Cardinality(allowed_words))

\* what the loop does guarantee: it ends with a win or with a guess the game
\* refused, within as many turns as the vocabulary has words; the selectors
\* that build their guess from the trie always win
C27_WinsUnlessRefused ==
    /\ <>(won \/ rejected)
    /\ [](rejected => solver_class \in {"EntropySolver", "ProgressiveEntropySolver"}
                      /\ attempts = <<>> /\ guess \notin allowed_words)
    /\ [](Len(attempts) <= Cardinality(allowed_words))

\* a loop that ended without a win: the opener was refused
C27_Refused ==
    /\ pc = "idle" /\ rejected /\ ~won
    /\ secret_word \in allowed_words
    /\ guess = first_guess(solver_class)

\* a game won on the last word of a vocabulary of three or more
C27_LongestGame ==
    /\ won /\ Len(attempts) = Cardinality(allowed_words)
    /\ Len(attempts) >= 3

\* ---- C28 ----
\* C28: in every state reachable by make_guess and reset calls,
\* len(attempts) <= max_attempts, won holds iff the last accepted guess equals
\* the secret, game_over holds iff won or len(attempts) = max_attempts, and
\* every entry of attempts is (guess, evaluate_guess(guess, secret)) for an
\* allowed guess.
C28_GameInvariant ==
    pc = "game" =>
        /\ Len(attempts) <= max_attempts
        /\ won <=> (attempts # <<>> /\ attempts[Len(attempts)][1] = secret_word)
        /\ game_over <=> (won \/ Len(attempts) = max_attempts)
        /\ \A k \in 1..Len(attempts) :
              /\ attempts[k][1] \in allowed_words
              /\ Len(attempts[k][1]) = WordLen
              /\ attempts[k][2] = _calculate_pattern(attempts[k][1], secret_word)

\* a game lost at the attempt limit, and a further make_guess turned down
C28_Witness ==
    /\ pc = "game"
    /\ game_over /\ ~won /\ Len(attempts) = max_attempts
    /\ called = "make_guess" /\ ~result.ok
    /\ pair[2] = secret_word

\* reset has just ended a game that was won
C28_ResetAfterWin ==
    /\ pc = "game" /\ called = "reset"
    /\ attempts = <<>> /\ ~game_over /\ ~won
    /\ pair # <<>> /\ pair[1] = pair[2] /\ pair[2] # secret_word

\* ---- C29 ----
\* pick_guess has just returned on a turn that has candidates
Proposed == called = "pick_guess" /\ currently_consistent_words # {}

\* the fixed opener: EntropySolver and ProgressiveEntropySolver on the empty
\* history
Opener ==
    /\ solver_class \in {"EntropySolver", "ProgressiveEntropySolver"}
    /\ attempts = <<>>

\* C29: for every selector and every turn in which the candidate set is not
\* empty, the word pick_guess returns, the fixed opener on the empty history
\* included, is in the allowed vocabulary, so make_guess never turns it down
\* as an invalid guess.
C29_Original ==
    Proposed => validate_guess(guess)

\* what holds: every word returned on a turn with candidates is allowed,
\* except the opener, which is returned whatever the vocabulary is
C29_ExceptOpener ==
    (Proposed /\ ~Opener) => validate_guess(guess)

\* the opener returned to a game that does not allow it, and turned down
C29_OpenerRefused ==
    /\ pc = "idle" /\ rejected /\ attempts = <<>>
    /\ guess = tares /\ tares \notin allowed_words
    /\ currently_consistent_words # {}

\* ---- C30 ----
\* a selector that builds its word letter by letter has just done so on a
\* turn that has candidates
Built5 ==
    /\ Proposed
    /\ \/ solver_class \in {"HillClimbingSolver", "KnowledgeBasedHillClimbingSolver"}
       \/ solver_class = "ProgressiveEntropySolver" /\ attempts # <<>>

\* the word the descent built: greedy_guess for the sampled selector
BuiltWord ==
    IF solver_class = "ProgressiveEntropySolver" THEN greedy_guess ELSE guess

\* C30: whenever the candidate set is not empty after narrowing, the string
\* HillClimbingSolver, KnowledgeBasedHillClimbingSolver and
\* ProgressiveEntropySolver (on a history) build letter by letter has 5
\* letters, is a root-to-leaf path of the trie and a member of
\* currently_consistent_words.
C30_LiveCandidate ==
    Built5 =>
        /\ Len(BuiltWord) = WordLen
        /\ trie # <<>> /\ IsWord(trie[1], BuiltWord)
        /\ \A i \in Positions :
              BuiltWord[i] \in Children(trie[1], SubSeq(BuiltWord, 1, i - 1))
        /\ BuiltWord \in currently_consistent_words
        /\ guess \in currently_consistent_words

\* a descent with a choice at the root and below it
C30_Witness ==
    /\ Built5 /\ attempts # <<>>
    /\ Cardinality(Children(trie[1], <<>>)) >= 2
    /\ Cardinality(currently_consistent_words) >= 3
    /\ BuiltWord \in currently_consistent_words
====
